---- MODULE Spec2Model ----
(***************************************************************************)
(* Model of obfsproxy's entry point (src/src/main.c): the signal handler   *)
(* that drives shutdown, the event-loop exit request, and the parsing of   *)
(* the leading obfsproxy options.                                          *)
(*                                                                         *)
(* Three specifications share the variables:                               *)
(*   Spec / FairSpec : the running event loop, signals and shutdown        *)
(*   ArgSpec         : obfs_main with handle_obfsproxy_args                 *)
(***************************************************************************)
EXTENDS Integers, Sequences, FiniteSets, TLC

(* ------------------------------ bounds --------------------------------- *)

\* number of signal dispatches explored
MaxSignals == 4
\* number of simultaneously open connections explored
MaxConns == 2
\* number of arguments after the program name explored
MaxArgs == 3
MaxProtos == 2
MaxHours == 2

(* ------------------------------ state ---------------------------------- *)

VARIABLES
  \* --- event loop and shutdown (main.c statics + collaborators) ---
  pc,            \* position of the process: "main", "init", "ready", "run",
                 \* "returned", "done"; "exit", "killed" when it ended early
  got_sigint,    \* static int got_sigint of handle_signal_cb
  listenersOpen, \* network collaborator: the listener set is open
  closeCalls,    \* number of close_all_listeners() calls made so far
  shutting_down, \* network collaborator: a shutdown directive was received
  nConns,        \* network collaborator: open connections
  directives,    \* arguments of the start_shutdown() calls, in order
  loopexit,      \* the_event_base was told to exit (event_base_loopexit)
  exitCalls,     \* number of finish_shutdown() calls made so far
  netFinished,   \* the network collaborator has reported the drain
  trace,         \* one record per dispatched signal callback
  \* --- argument parsing (obfs_main / handle_obfsproxy_args) ---
  argv,          \* the arguments after argv[0]
  fileOk,        \* environment: the log file can be created
  apc,           \* position of obfs_main: "idle","parse","launch","exit","ret"
  i,             \* int i of handle_obfsproxy_args
  logfile_set,
  logsev_set,
  is_external_proxy,
  safe_logging,
  log_method,    \* logging collaborator: <<"default">>, <<"null">>, <<"file", path>>
  log_min_sev,   \* logging collaborator: minimum severity
  err,           \* which fatal diagnostic ended the process ("none" if none)
  errAt,         \* argv index at which the fatal diagnostic was raised
  exit_code,     \* process exit / obfs_main return code (-1: still running)
  launched,      \* sequence of launcher invocations
  subsystems,    \* subsystems initialised so far
  launch_ret,    \* what the invoked launcher returned (0 before any)
  \* --- protocol registry and usage() ---
  registry,      \* supported_protocols[0 .. n_supported_protocols-1], by name
  qname,         \* argument of the last is_supported_protocol() call
  qret,          \* its return value (-1 before any call)
  usage_out,     \* what usage() wrote to stderr, item by item
  \* --- start-up, teardown and the heartbeat timer ---
  initLog,       \* the start-up calls made by obfsproxy_init, in order
  teardown,      \* the teardown calls made by obfsproxy_cleanup, in order
  now,           \* the clock, in seconds
  hb_next,       \* when the heartbeat timer expires next
  hbLog          \* one record per status_log_heartbeat() call made so far

loopVars == <<pc, got_sigint, listenersOpen, closeCalls, shutting_down, nConns,
              directives, loopexit, exitCalls, netFinished, trace>>
argVars == <<argv, fileOk, apc, i, logfile_set, logsev_set, is_external_proxy,
             safe_logging, log_method, log_min_sev, err, errAt, exit_code,
             launched, subsystems>>
protoVars == <<registry, qname, qret, usage_out>>
lifeVars == <<initLog, teardown>>
timeVars == <<now, hb_next, hbLog>>
otherVars == <<launch_ret, protoVars, lifeVars, timeVars>>
vars == <<loopVars, argVars, otherVars>>

Signals == {"SIGINT", "SIGTERM"}

Range(s) == {s[k] : k \in DOMAIN s}

(* ------------------- the state a callback works on --------------------- *)

CbState ==
  [got_sigint |-> got_sigint, listenersOpen |-> listenersOpen,
   closeCalls |-> closeCalls, shutting_down |-> shutting_down,
   nConns |-> nConns, directives |-> directives,
   loopexit |-> loopexit, exitCalls |-> exitCalls]

Commit(s) ==
  /\ got_sigint' = s.got_sigint
  /\ listenersOpen' = s.listenersOpen
  /\ closeCalls' = s.closeCalls
  /\ shutting_down' = s.shutting_down
  /\ nConns' = s.nConns
  /\ directives' = s.directives
  /\ loopexit' = s.loopexit
  /\ exitCalls' = s.exitCalls

(* finish_shutdown(): event_base_loopexit(the_event_base, NULL).  The exit *)
(* request is a flag of the event base: asking again changes nothing.      *)
finish_shutdown_noexit(s) == [s EXCEPT !.exitCalls = @ + 1]

finish_shutdown(s) == [s EXCEPT !.loopexit = TRUE, !.exitCalls = @ + 1]

(* Network collaborator: close_all_listeners().  Closing an already closed *)
(* listener set leaves it closed.                                          *)
close_all_listeners(s) ==
  [s EXCEPT !.listenersOpen = FALSE, !.closeCalls = @ + 1]

(* Network collaborator: start_shutdown(barbaric).  barbaric = 0 lets the  *)
(* open connections finish (the collaborator calls finish_shutdown() once  *)
(* the last one is gone, see NetDrained); barbaric = 1 drops them and      *)
(* requests the loop exit at once.                                         *)
start_shutdown(s, barbaric) ==
  LET s1 == [s EXCEPT !.shutting_down = TRUE,
                      !.directives = Append(@, barbaric)]
  IN  IF barbaric = 1
        THEN finish_shutdown([s1 EXCEPT !.nConns = 0])
        ELSE s1

(* The shutdown state of the specification, read off the program: it is    *)
(* Terminating once an immediate directive was issued, Draining once only  *)
(* graceful ones were, Running before any.                                 *)
ShutdownStateOf(dirs) ==
  IF 1 \in Range(dirs) THEN "Terminating"
  ELSE IF 0 \in Range(dirs) THEN "Draining"
  ELSE "Running"

ShutdownState == ShutdownStateOf(directives)

Rank(st) == CASE st = "Running" -> 0 [] st = "Draining" -> 1 [] OTHER -> 2

(* ------------------------- handle_signal_cb ---------------------------- *)

\* variants of the handler body, each one slip away from the code
SignalBody_swapped(s, signum) ==
  IF signum = "SIGINT" THEN
    LET s1 == close_all_listeners(s)
    IN  IF s1.got_sigint # 0
          THEN [start_shutdown(s1, 0) EXCEPT !.got_sigint = @ + 1]
          ELSE start_shutdown(s1, 1)
  ELSE IF signum = "SIGTERM" THEN
    start_shutdown(s, 1)
  ELSE s

SignalBody_nocount(s, signum) ==
  IF signum = "SIGINT" THEN
    LET s1 == close_all_listeners(s)
    IN  IF s1.got_sigint = 0
          THEN start_shutdown(s1, 0)
          ELSE start_shutdown(s1, 1)
  ELSE IF signum = "SIGTERM" THEN
    start_shutdown(s, 1)
  ELSE s

SignalBody_termgraceful(s, signum) ==
  IF signum = "SIGINT" THEN
    LET s1 == close_all_listeners(s)
    IN  IF s1.got_sigint = 0
          THEN [start_shutdown(s1, 0) EXCEPT !.got_sigint = @ + 1]
          ELSE start_shutdown(s1, 1)
  ELSE IF signum = "SIGTERM" THEN
    start_shutdown(s, 0)
  ELSE s

SignalBody_noclose(s, signum) ==
  IF signum = "SIGINT" THEN
    IF s.got_sigint = 0
      THEN [start_shutdown(s, 0) EXCEPT !.got_sigint = @ + 1]
      ELSE start_shutdown(s, 1)
  ELSE IF signum = "SIGTERM" THEN
    start_shutdown(s, 1)
  ELSE s

SignalBody_countall(s, signum) ==
  IF signum = "SIGINT" THEN
    LET s1 == close_all_listeners(s)
    IN  IF s1.got_sigint = 0
          THEN [start_shutdown(s1, 0) EXCEPT !.got_sigint = @ + 1]
          ELSE [start_shutdown(s1, 1) EXCEPT !.got_sigint = @ + 1]
  ELSE IF signum = "SIGTERM" THEN
    start_shutdown(s, 1)
  ELSE s

\* the body of handle_signal_cb: switch (signum)
SignalBody(s, signum) ==
  IF signum = "SIGINT" THEN
    LET s1 == close_all_listeners(s)
    IN  IF s1.got_sigint = 0
          THEN [start_shutdown(s1, 0) EXCEPT !.got_sigint = @ + 1]
          ELSE start_shutdown(s1, 1)
  ELSE IF signum = "SIGTERM" THEN
    start_shutdown(s, 1)
  ELSE s

TraceEntry(signum, s, t) ==
  [sig      |-> signum,
   before   |-> ShutdownStateOf(s.directives),
   after    |-> ShutdownStateOf(t.directives),
   closes   |-> t.closeCalls - s.closeCalls,
   lbefore  |-> s.listenersOpen,
   lafter   |-> t.listenersOpen,
   issued   |-> SubSeq(t.directives, Len(s.directives) + 1, Len(t.directives)),
   exits    |-> t.exitCalls - s.exitCalls,
   gbefore  |-> s.got_sigint,
   gafter   |-> t.got_sigint]

handle_signal_cb(signum) ==
  /\ pc = "run"
  /\ Len(trace) < MaxSignals
  /\ LET t == SignalBody(CbState, signum)
     IN  /\ Commit(t)
         /\ trace' = Append(trace, TraceEntry(signum, CbState, t))
  /\ UNCHANGED <<pc, netFinished, argVars, otherVars>>

(* ----------------------- network collaborator -------------------------- *)

\* a listener accepts a connection
NetAccept ==
  /\ pc = "run"
  /\ listenersOpen
  /\ nConns < MaxConns
  /\ nConns' = nConns + 1
  /\ UNCHANGED <<pc, got_sigint, listenersOpen, closeCalls, shutting_down,
                 directives, loopexit, exitCalls, netFinished, trace, argVars,
                 otherVars>>

\* an open connection closes
NetClose ==
  /\ pc = "run"
  /\ nConns > 0
  /\ nConns' = nConns - 1
  /\ UNCHANGED <<pc, got_sigint, listenersOpen, closeCalls, shutting_down,
                 directives, loopexit, exitCalls, netFinished, trace, argVars,
                 otherVars>>

\* draining is complete: the collaborator itself calls finish_shutdown()
NetDrained ==
  /\ pc = "run"
  /\ shutting_down
  /\ nConns = 0
  /\ ~netFinished
  /\ ShutdownState = "Draining"
  /\ Commit(finish_shutdown(CbState))
  /\ netFinished' = TRUE
  /\ UNCHANGED <<pc, trace, argVars, otherVars>>

(* ------------------------------ the loop ------------------------------- *)

\* event_base_dispatch() returns once the exit was requested
LoopReturn ==
  /\ pc = "run"
  /\ loopexit
  /\ pc' = "returned"
  /\ UNCHANGED <<got_sigint, listenersOpen, closeCalls, shutting_down, nConns,
                 directives, loopexit, exitCalls, netFinished, trace, argVars,
                 otherVars>>

\* variant: the event base is freed before what is registered on it
CleanupCalls_basefirst(hb) ==
  <<"close_all_listeners", "event_base_free", "evdns_base_free",
    "event_free(sig_int)", "event_free(sig_term)">>
  \o (IF hb THEN <<"event_free(heartbeat)">> ELSE <<>>)
  \o <<"cleanup_crypto", "status_connections_cleanup",
       "close_obfsproxy_logfile">>

\* the calls of obfsproxy_cleanup, in order; hb: heartbeat is not NULL
CleanupCalls(hb) ==
  <<"close_all_listeners", "evdns_base_free",
    "event_free(sig_int)", "event_free(sig_term)">>
  \o (IF hb THEN <<"event_free(heartbeat)">> ELSE <<>>)
  \o <<"event_base_free", "cleanup_crypto", "status_connections_cleanup",
       "close_obfsproxy_logfile">>

\* obfsproxy_cleanup(): every call is made, none looks at the one before
obfsproxy_cleanup ==
  /\ pc = "returned"
  /\ pc' = "done"
  /\ Commit(close_all_listeners(CbState))
  /\ teardown' = CleanupCalls("heartbeat" \in subsystems)
  /\ subsystems' = {}
  /\ UNCHANGED <<netFinished, trace, argv, fileOk, apc, i, logfile_set,
                 logsev_set, is_external_proxy, safe_logging, log_method,
                 log_min_sev, err, errAt, exit_code, launched,
                 launch_ret, protoVars, initLog, timeVars>>

AllSubsystems == {"crypto", "reactor", "dns", "signals", "heartbeat"}

\* one_hour.tv_sec
one_hour == 3600

\* the calls of a start-up in which every step succeeded
InitCalls ==
  <<"initialize_crypto", "event_base_new", "init_evdns_base",
    "signal(SIGPIPE)", "evsignal_new(SIGINT)", "evsignal_new(SIGTERM)",
    "event_add(sig_int)", "event_add(sig_term)",
    "status_init", "event_new(heartbeat)", "event_add(heartbeat)">>

\* nothing of the registry, of usage() or of the timer has happened
ProtoIdle ==
  /\ registry = <<>>
  /\ qname = <<>>
  /\ qret = -1
  /\ usage_out = <<>>

\* static struct event *heartbeat before obfsproxy_init: no timer
NotArmed == -1

TimerIdle ==
  /\ now = 0
  /\ hb_next = NotArmed
  /\ hbLog = <<>>

TimerArmed ==
  /\ now = 0
  /\ hb_next = one_hour
  /\ hbLog = <<>>

ArgIdle ==
  /\ argv = <<>>
  /\ fileOk = TRUE
  /\ apc = "idle"
  /\ i = 1
  /\ logfile_set = 0
  /\ logsev_set = 0
  /\ is_external_proxy = 1
  /\ safe_logging = 1
  /\ log_method = <<"default">>
  /\ log_min_sev = <<"n","o","t","i","c","e">>
  /\ err = "none"
  /\ errAt = 0
  /\ exit_code = -1
  /\ launched = <<>>

Init ==
  /\ pc = "run"
  /\ got_sigint = 0
  /\ listenersOpen = TRUE
  /\ closeCalls = 0
  /\ shutting_down = FALSE
  /\ nConns = 0
  /\ directives = <<>>
  /\ loopexit = FALSE
  /\ exitCalls = 0
  /\ netFinished = FALSE
  /\ trace = <<>>
  /\ ArgIdle
  /\ subsystems = AllSubsystems
  /\ launch_ret = 0
  /\ ProtoIdle
  /\ initLog = InitCalls
  /\ teardown = <<>>
  /\ TimerArmed

Next ==
  \/ \E signum \in Signals : handle_signal_cb(signum)
  \/ NetAccept
  \/ NetClose
  \/ NetDrained
  \/ LoopReturn
  \/ obfsproxy_cleanup

Spec == Init /\ [][Next]_vars

FairSpec == Init /\ [][Next]_vars /\ WF_vars(LoopReturn)

(* ========================= shutdown properties ========================= *)

Sigs == [k \in DOMAIN trace |-> trace[k].sig]

(* C1: over every sequence of dispatched interrupt and terminate signals   *)
(* the shutdown state never moves backward, and once an immediate          *)
(* shutdown was requested no later signal issues the graceful directive.   *)
C1_Monotonic ==
  /\ \A k \in DOMAIN trace : Rank(trace[k].before) <= Rank(trace[k].after)
  /\ \A j, k \in DOMAIN trace :
       (j < k /\ 1 \in Range(trace[j].issued)) => 0 \notin Range(trace[k].issued)

(* C2: an interrupt dispatched in Running closes the listeners, issues the *)
(* graceful directive, moves to Draining and requests no loop exit; after  *)
(* the sequence [interrupt] the listeners were closed exactly once and the *)
(* handler has not asked the loop to exit.                                 *)
C2_FirstInterrupt ==
  /\ \A k \in DOMAIN trace :
       (trace[k].sig = "SIGINT" /\ trace[k].before = "Running") =>
         /\ trace[k].closes = 1
         /\ ~trace[k].lafter
         /\ trace[k].issued = <<0>>
         /\ trace[k].after = "Draining"
         /\ trace[k].exits = 0
  /\ (Sigs = <<"SIGINT">> /\ pc = "run") =>
         /\ closeCalls = 1
         /\ ~listenersOpen
         /\ ShutdownState = "Draining"
         /\ exitCalls = (IF netFinished THEN 1 ELSE 0)
         /\ loopexit = netFinished

C2_Witness ==
  /\ Sigs = <<"SIGINT">>
  /\ pc = "run"
  /\ ~netFinished
  /\ nConns > 0

(* C3: an interrupt dispatched in Draining requests immediate shutdown and *)
(* the state becomes Terminating; over [interrupt, interrupt] the loop     *)
(* exit is requested exactly once, by the second interrupt.                *)
C3_SecondInterrupt ==
  /\ \A k \in DOMAIN trace :
       (trace[k].sig = "SIGINT" /\ trace[k].before = "Draining") =>
         /\ trace[k].issued = <<1>>
         /\ trace[k].after = "Terminating"
         /\ trace[k].exits = 1
  /\ (Len(trace) >= 2 /\ trace[1].sig = "SIGINT" /\ trace[2].sig = "SIGINT") =>
         /\ trace[1].exits = 0
         /\ trace[2].exits = 1
         /\ trace[2].after = "Terminating"
  /\ (Sigs = <<"SIGINT", "SIGINT">> /\ ~netFinished) =>
         /\ exitCalls = 1
         /\ ShutdownState = "Terminating"
         /\ loopexit

C3_Witness ==
  /\ Sigs = <<"SIGINT", "SIGINT">>
  /\ ~netFinished
  /\ pc = "run"

(* C4 as stated: a terminate-signal dispatched in Running or Draining      *)
(* closes all listeners, requests immediate shutdown, requests the loop    *)
(* exit once, and the state becomes Terminating.                           *)
C4_TerminateCloses ==
  \A k \in DOMAIN trace :
    (trace[k].sig = "SIGTERM" /\ trace[k].before \in {"Running", "Draining"}) =>
      /\ trace[k].closes >= 1
      /\ ~trace[k].lafter
      /\ trace[k].issued = <<1>>
      /\ trace[k].exits = 1
      /\ trace[k].after = "Terminating"

(* C4 amended: a terminate-signal dispatched in Running or Draining        *)
(* requests immediate shutdown, requests the loop exit once, and the state *)
(* becomes Terminating; the handler makes no closure request, so after     *)
(* [terminate] from Running the listeners are still open while the loop    *)
(* runs, and they are closed by obfsproxy_cleanup after it returned.       *)
C4_Terminate ==
  /\ \A k \in DOMAIN trace :
       (trace[k].sig = "SIGTERM" /\ trace[k].before \in {"Running", "Draining"}) =>
         /\ trace[k].closes = 0
         /\ trace[k].lafter = trace[k].lbefore
         /\ trace[k].issued = <<1>>
         /\ trace[k].exits = 1
         /\ trace[k].after = "Terminating"
  /\ (Sigs = <<"SIGTERM">> /\ pc # "done") =>
         /\ listenersOpen
         /\ closeCalls = 0
         /\ exitCalls = 1
         /\ ShutdownState = "Terminating"
  /\ pc = "done" => ~listenersOpen

C4_Witness ==
  /\ Sigs = <<"SIGTERM">>
  /\ pc = "done"

(* C5: Terminating is absorbing: a signal dispatched in Terminating closes *)
(* no listener, issues no shutdown directive, requests no further loop     *)
(* exit, and the state stays Terminating.                                  *)
C5_Absorbing ==
  \A k \in DOMAIN trace :
    trace[k].before = "Terminating" =>
      /\ trace[k].closes = 0
      /\ trace[k].issued = <<>>
      /\ trace[k].exits = 0
      /\ trace[k].after = "Terminating"

(* C6: over [interrupt, terminate] the state goes Running, Draining,       *)
(* Terminating and the listeners are closed by the interrupt; whatever the *)
(* sequence, a closure request made once the listeners are closed leaves   *)
(* them closed, so closing takes effect at most once.                      *)
C6_CloseOnce ==
  /\ (Len(trace) >= 2 /\ trace[1].sig = "SIGINT" /\ trace[2].sig = "SIGTERM") =>
         /\ trace[1].before = "Running"
         /\ trace[1].after = "Draining"
         /\ trace[2].before = "Draining"
         /\ trace[2].after = "Terminating"
         /\ trace[1].lbefore /\ ~trace[1].lafter
         /\ ~trace[2].lbefore /\ ~trace[2].lafter
  /\ \A k \in DOMAIN trace : ~trace[k].lbefore => ~trace[k].lafter
  /\ Cardinality({k \in DOMAIN trace : trace[k].lbefore /\ ~trace[k].lafter}) <= 1
  /\ (closeCalls > 0 => ~listenersOpen)

C6_Witness ==
  /\ Len(trace) >= 3
  /\ trace[1].sig = "SIGINT"
  /\ trace[2].sig = "SIGTERM"
  /\ trace[3].sig = "SIGINT"
  /\ trace[3].closes = 1

(* C7: every shutdown path ends with the loop returning.  An immediate     *)
(* directive requests the exit whatever the open connections; after a      *)
(* single interrupt the loop runs on until the network collaborator calls  *)
(* finish_shutdown(); the loop returns only after a request, and any       *)
(* number of requests acts as one.                                         *)
C7_ShutdownEnds ==
  /\ [](ShutdownState = "Terminating" => loopexit)
  /\ []((ShutdownState = "Draining" /\ ~netFinished) => (pc = "run" /\ ~loopexit))
  /\ [](pc # "run" => exitCalls >= 1)
  /\ [](exitCalls >= 1 => loopexit)
  /\ (loopexit ~> pc # "run")
  /\ (ShutdownState = "Terminating" ~> pc # "run")
  /\ (netFinished ~> pc # "run")

C7_Witness ==
  /\ pc = "returned"
  /\ netFinished
  /\ exitCalls >= 2

(* ===================== obfs_main: argument parsing ===================== *)

(* C strings are sequences of characters; NUL stands for the terminator.   *)
NUL == "NUL"

OPT_MARKER == <<"-","-">>
OPT_LOG_FILE == <<"-","-","l","o","g","-","f","i","l","e","=">>
OPT_LOG_MIN_SEVERITY == <<"-","-","l","o","g","-","m","i","n","-","s","e","v","e","r","i","t","y","=">>
OPT_NO_LOG == <<"-","-","n","o","-","l","o","g">>
OPT_NO_SAFE_LOGGING == <<"-","-","n","o","-","s","a","f","e","-","l","o","g","g","i","n","g">>
OPT_MANAGED == <<"-","-","m","a","n","a","g","e","d">>

\* the arguments explored
ArgLogFile == <<"-","-","l","o","g","-","f","i","l","e","=","/","t","m","p","/","x",".","l","o","g">>
ArgLogSev == <<"-","-","l","o","g","-","m","i","n","-","s","e","v","e","r","i","t","y","=","d","e","b","u","g">>
ArgNoLog == OPT_NO_LOG
ArgNoSafe == OPT_NO_SAFE_LOGGING
ArgManaged == OPT_MANAGED
ArgObfs2 == <<"o","b","f","s","2">>
ArgDest == <<"-","-","d","e","s","t","=","1",".","2",".","3",".","4",":","8","0">>
ArgDash == <<"-">>
ArgManagedX == <<"-","-","m","a","n","a","g","e","d","X">>
ArgNoLogs == <<"-","-","n","o","-","l","o","g","s">>
ArgBare == <<"-","-">>

Tokens == {ArgLogFile, ArgLogSev, ArgNoLog, ArgNoSafe, ArgManaged,
           ArgObfs2, ArgDest, ArgDash, ArgManagedX, ArgNoLogs, ArgBare}

ArgSeqs == UNION {[1..n -> Tokens] : n \in 0..MaxArgs}

SeverityNames == {<<"w","a","r","n">>, <<"n","o","t","i","c","e">>,
                  <<"i","n","f","o">>, <<"d","e","b","u","g">>}

CharAt(str, k) == IF k <= Len(str) THEN str[k] ELSE NUL

(* strncmp(a, b, n) == 0: the strings agree on their first n characters,   *)
(* the comparison stopping at the first terminator.                        *)
StrnEq(a, b, n) ==
  \A k \in 1..n :
    (\A j \in 1..(k - 1) : CharAt(a, j) # NUL) => CharAt(a, k) = CharAt(b, k)

\* the string starting at offset n of str (str + n)
StrFrom(str, n) == SubSeq(str, n + 1, Len(str))

ArgState ==
  [argv |-> argv, fileOk |-> fileOk, apc |-> apc, i |-> i,
   logfile_set |-> logfile_set, logsev_set |-> logsev_set,
   is_external_proxy |-> is_external_proxy, safe_logging |-> safe_logging,
   log_method |-> log_method, log_min_sev |-> log_min_sev,
   err |-> err, errAt |-> errAt, exit_code |-> exit_code]

ArgStart(av, fok) ==
  [argv |-> av, fileOk |-> fok, apc |-> "parse", i |-> 1,
   logfile_set |-> 0, logsev_set |-> 0,
   is_external_proxy |-> 1, safe_logging |-> 1,
   log_method |-> <<"default">>, log_min_sev |-> <<"n","o","t","i","c","e">>,
   err |-> "none", errAt |-> 0, exit_code |-> -1]

ArgCommit(a) ==
  /\ argv' = a.argv
  /\ fileOk' = a.fileOk
  /\ apc' = a.apc
  /\ i' = a.i
  /\ logfile_set' = a.logfile_set
  /\ logsev_set' = a.logsev_set
  /\ is_external_proxy' = a.is_external_proxy
  /\ safe_logging' = a.safe_logging
  /\ log_method' = a.log_method
  /\ log_min_sev' = a.log_min_sev
  /\ err' = a.err
  /\ errAt' = a.errAt
  /\ exit_code' = a.exit_code

(* Logging collaborator: log_error() records the message and terminates    *)
(* the process with exit code 1.                                           *)
log_error(a, kind) ==
  [a EXCEPT !.apc = "exit", !.err = kind, !.errAt = a.i, !.exit_code = 1]

\* printf(...); exit(1);
exit1(a, kind) ==
  [a EXCEPT !.apc = "exit", !.err = kind, !.errAt = a.i, !.exit_code = 1]

(* Logging collaborator: log_set_method(method, filename).  Selecting the  *)
(* null sink cannot fail; selecting a file fails when it cannot be created.*)
log_set_method(a, method, filename) ==
  IF method = "file"
    THEN IF a.fileOk
           THEN [ret |-> 0, a |-> [a EXCEPT !.log_method = <<"file", filename>>]]
           ELSE [ret |-> -1, a |-> a]
    ELSE [ret |-> 0, a |-> [a EXCEPT !.log_method = <<"null">>]]

(* Logging collaborator: log_set_min_severity(name): one of the four       *)
(* severities, anything else is refused.                                   *)
log_set_min_severity(a, name) ==
  IF name \in SeverityNames
    THEN [ret |-> 0, a |-> [a EXCEPT !.log_min_sev = name]]
    ELSE [ret |-> -1, a |-> a]

\* variant: only the first character of the marker is compared
LoopCond_onedash(a) ==
  /\ a.i <= Len(a.argv)
  /\ StrnEq(a.argv[a.i], OPT_MARKER, 1)

\* while (argv[i] && !strncmp(argv[i],"--",2))
LoopCond(a) ==
  /\ a.i <= Len(a.argv)
  /\ StrnEq(a.argv[a.i], OPT_MARKER, 2)

\* the --log-file= branch
Branch_log_file(a, arg) ==
  IF a.logfile_set # 0 THEN log_error(a, "logfile_twice")
  ELSE LET r == log_set_method(a, "file", StrFrom(arg, 11)) IN
       IF r.ret < 0 THEN log_error(r.a, "logfile_failed")
       ELSE [r.a EXCEPT !.logfile_set = 1, !.i = @ + 1]

\* the --log-min-severity= branch
Branch_log_min_severity(a, arg) ==
  IF a.logsev_set # 0 THEN log_error(a, "logsev_twice")
  ELSE LET r == log_set_min_severity(a, StrFrom(arg, 19)) IN
       IF r.ret < 0 THEN log_error(r.a, "logsev_failed")
       ELSE [r.a EXCEPT !.logsev_set = 1, !.i = @ + 1]

\* variant: --no-log forgets to look at logsev_set
Branch_no_log_unchecked(a) ==
  LET r == log_set_method(a, "null", <<>>) IN
  IF r.ret < 0 THEN exit1(r.a, "logsev_failed")
  ELSE [r.a EXCEPT !.logsev_set = 1, !.i = @ + 1]

\* variant: --no-log looks at the wrong flag
Branch_no_log_wrongflag(a) ==
  IF a.logfile_set # 0 THEN exit1(a, "logsev_twice")
  ELSE LET r == log_set_method(a, "null", <<>>) IN
       IF r.ret < 0 THEN exit1(r.a, "logsev_failed")
       ELSE [r.a EXCEPT !.logsev_set = 1, !.i = @ + 1]

\* variant: --no-log is not recorded as a severity setting
Branch_no_log_noflag(a) ==
  IF a.logsev_set # 0 THEN exit1(a, "logsev_twice")
  ELSE LET r == log_set_method(a, "null", <<>>) IN
       IF r.ret < 0 THEN exit1(r.a, "logsev_failed")
       ELSE [r.a EXCEPT !.i = @ + 1]

\* the --no-log branch
Branch_no_log(a) ==
  IF a.logsev_set # 0 THEN exit1(a, "logsev_twice")
  ELSE LET r == log_set_method(a, "null", <<>>) IN
       IF r.ret < 0 THEN exit1(r.a, "logsev_failed")
       ELSE [r.a EXCEPT !.logsev_set = 1, !.i = @ + 1]

\* variant: the flags are compared without their terminator
ParseArgStep_prefixflags(a) ==
  LET arg == a.argv[a.i] IN
  IF StrnEq(arg, OPT_LOG_FILE, 11) THEN Branch_log_file(a, arg)
  ELSE IF StrnEq(arg, OPT_LOG_MIN_SEVERITY, 19) THEN Branch_log_min_severity(a, arg)
  ELSE IF StrnEq(arg, OPT_NO_LOG, 8) THEN Branch_no_log(a)
  ELSE IF StrnEq(arg, OPT_NO_SAFE_LOGGING, 17) THEN
    [a EXCEPT !.safe_logging = 0, !.i = @ + 1]
  ELSE IF StrnEq(arg, OPT_MANAGED, 9) THEN
    [a EXCEPT !.is_external_proxy = 0, !.i = @ + 1]
  ELSE log_error(a, "unrecognized")

\* one iteration of the while loop of handle_obfsproxy_args
ParseArgStep(a) ==
  LET arg == a.argv[a.i] IN
  IF StrnEq(arg, OPT_LOG_FILE, 11) THEN Branch_log_file(a, arg)
  ELSE IF StrnEq(arg, OPT_LOG_MIN_SEVERITY, 19) THEN Branch_log_min_severity(a, arg)
  ELSE IF StrnEq(arg, OPT_NO_LOG, 9) THEN Branch_no_log(a)
  ELSE IF StrnEq(arg, OPT_NO_SAFE_LOGGING, 18) THEN
    [a EXCEPT !.safe_logging = 0, !.i = @ + 1]
  ELSE IF StrnEq(arg, OPT_MANAGED, 10) THEN
    [a EXCEPT !.is_external_proxy = 0, !.i = @ + 1]
  ELSE log_error(a, "unrecognized")

\* variant: the managed-mode check forgets the severity case
ParseEndStep_nosev(a) ==
  IF a.is_external_proxy = 0 /\ a.logfile_set = 0 THEN
    LET r == log_set_method(a, "null", <<>>) IN
    IF r.ret < 0 THEN exit1(r.a, "logsev_failed")
    ELSE [r.a EXCEPT !.apc = "launch"]
  ELSE [a EXCEPT !.apc = "launch"]

\* the code after the loop of handle_obfsproxy_args, up to its return
ParseEndStep(a) ==
  IF a.is_external_proxy = 0 /\ a.logfile_set = 0 /\ a.logsev_set # 0 THEN
    exit1(a, "managed_log")
  ELSE IF a.is_external_proxy = 0 /\ a.logfile_set = 0 THEN
    LET r == log_set_method(a, "null", <<>>) IN
    IF r.ret < 0 THEN exit1(r.a, "logsev_failed")
    ELSE [r.a EXCEPT !.apc = "launch"]
  ELSE [a EXCEPT !.apc = "launch"]

\* handle_obfsproxy_args as a whole, from any point of its run
RECURSIVE RunArgs(_)
RunArgs(a) ==
  IF a.apc # "parse" THEN a
  ELSE IF LoopCond(a) THEN RunArgs(ParseArgStep(a))
  ELSE ParseEndStep(a)

handle_obfsproxy_args_loop ==
  /\ apc = "parse"
  /\ LoopCond(ArgState)
  /\ ArgCommit(ParseArgStep(ArgState))
  /\ UNCHANGED <<loopVars, launched, subsystems, otherVars>>

handle_obfsproxy_args_end ==
  /\ apc = "parse"
  /\ ~LoopCond(ArgState)
  /\ ArgCommit(ParseEndStep(ArgState))
  /\ UNCHANGED <<loopVars, launched, subsystems, otherVars>>

\* begin = argv + handle_obfsproxy_args(argv)
Remainder == SubSeq(argv, i, Len(argv))

\* variant: the launchers are taken the other way round
obfs_main_launch_swapped(r) ==
  /\ apc = "launch"
  /\ launched' = Append(launched,
                   IF is_external_proxy = 0
                     THEN [launcher |-> "external", args |-> Remainder]
                     ELSE [launcher |-> "managed", args |-> <<>>])
  /\ launch_ret' = r
  /\ exit_code' = IF r < 0 THEN 1 ELSE 0
  /\ apc' = "ret"
  /\ subsystems' = IF r < 0 THEN {} ELSE AllSubsystems
  /\ UNCHANGED <<loopVars, argv, fileOk, i, logfile_set, logsev_set,
                 is_external_proxy, safe_logging, log_method, log_min_sev,
                 err, errAt, protoVars, lifeVars, timeVars>>

\* obfs_main after the options: exactly one launcher, its result decides
obfs_main_launch(r) ==
  /\ apc = "launch"
  /\ launched' = Append(launched,
                   IF is_external_proxy # 0
                     THEN [launcher |-> "external", args |-> Remainder]
                     ELSE [launcher |-> "managed", args |-> <<>>])
  /\ launch_ret' = r
  /\ exit_code' = IF r < 0 THEN 1 ELSE 0
  /\ apc' = "ret"
  /\ subsystems' = IF r < 0 THEN {} ELSE AllSubsystems
  /\ UNCHANGED <<loopVars, argv, fileOk, i, logfile_set, logsev_set,
                 is_external_proxy, safe_logging, log_method, log_min_sev,
                 err, errAt, protoVars, lifeVars, timeVars>>

ArgIs(a) ==
  /\ argv = a.argv
  /\ fileOk = a.fileOk
  /\ apc = a.apc
  /\ i = a.i
  /\ logfile_set = a.logfile_set
  /\ logsev_set = a.logsev_set
  /\ is_external_proxy = a.is_external_proxy
  /\ safe_logging = a.safe_logging
  /\ log_method = a.log_method
  /\ log_min_sev = a.log_min_sev
  /\ err = a.err
  /\ errAt = a.errAt
  /\ exit_code = a.exit_code

ArgInit ==
  /\ pc = "main"
  /\ got_sigint = 0
  /\ listenersOpen = FALSE
  /\ closeCalls = 0
  /\ shutting_down = FALSE
  /\ nConns = 0
  /\ directives = <<>>
  /\ loopexit = FALSE
  /\ exitCalls = 0
  /\ netFinished = FALSE
  /\ trace = <<>>
  /\ \E av \in ArgSeqs, fok \in BOOLEAN : ArgIs(ArgStart(av, fok))
  /\ launched = <<>>
  /\ subsystems = {}
  /\ launch_ret = 0
  /\ ProtoIdle
  /\ initLog = <<>>
  /\ teardown = <<>>
  /\ TimerIdle

ArgNext ==
  \/ handle_obfsproxy_args_loop
  \/ handle_obfsproxy_args_end
  \/ \E r \in {0, -1} : obfs_main_launch(r)

ArgSpec == ArgInit /\ [][ArgNext]_vars

(* ===================== argument-parsing properties ===================== *)

HasPrefix(str, p) == Len(str) >= Len(p) /\ SubSeq(str, 1, Len(p)) = p

\* index of the first argument that does not begin with the option marker
PrefixEnd(av) ==
  IF \E k \in DOMAIN av : ~HasPrefix(av[k], OPT_MARKER)
    THEN CHOOSE k \in DOMAIN av :
           /\ ~HasPrefix(av[k], OPT_MARKER)
           /\ \A j \in 1..(k - 1) : HasPrefix(av[j], OPT_MARKER)
    ELSE Len(av) + 1

OptionPrefix(av) == SubSeq(av, 1, PrefixEnd(av) - 1)

IsLogFileArg(arg) == HasPrefix(arg, OPT_LOG_FILE)
IsSevArg(arg) == HasPrefix(arg, OPT_LOG_MIN_SEVERITY) \/ arg = OPT_NO_LOG

LogFileAt(av) == {k \in DOMAIN OptionPrefix(av) : IsLogFileArg(av[k])}
SevAt(av) == {k \in DOMAIN OptionPrefix(av) : IsSevArg(av[k])}

\* the second smallest element of a set of indices with two or more
Second(S) == CHOOSE k \in S : Cardinality({j \in S : j < k}) = 1

\* the places where a repeated option is met for the second time
Conflicts(av) ==
  (IF Cardinality(LogFileAt(av)) >= 2
     THEN {[at |-> Second(LogFileAt(av)), err |-> "logfile_twice"]} ELSE {})
  \cup
  (IF Cardinality(SevAt(av)) >= 2
     THEN {[at |-> Second(SevAt(av)), err |-> "logsev_twice"]} ELSE {})

NothingStarted == launched = <<>> /\ subsystems = {}

(* C8 as stated: with two --log-file= or two severity-setting options in   *)
(* the option prefix the process is terminated with the configuration-     *)
(* conflict error at the second occurrence; handle_obfsproxy_args never    *)
(* returns, no launcher is invoked and no subsystem is initialised.        *)
C8_ConflictAtSecond ==
  Conflicts(argv) # {} =>
    /\ apc \in {"parse", "exit"}
    /\ NothingStarted
    /\ apc = "exit" =>
         /\ exit_code = 1
         /\ \E c \in Conflicts(argv) : errAt = c.at /\ err = c.err

(* C8 amended: with two --log-file= or two severity-setting options in the *)
(* option prefix the process is terminated with exit code 1 no later than  *)
(* the second occurrence: by the configuration-conflict error at the       *)
(* second occurrence, unless an earlier argument was already fatal (an     *)
(* unrecognized option, or a log file or severity the logging collaborator *)
(* refuses); handle_obfsproxy_args never returns, no launcher is invoked   *)
(* and no subsystem is initialised.                                        *)
C8_Conflict ==
  Conflicts(argv) # {} =>
    /\ apc \in {"parse", "exit"}
    /\ NothingStarted
    /\ \A c \in Conflicts(argv) :
         /\ apc = "parse" => i <= c.at
         /\ apc = "exit" =>
              /\ exit_code = 1
              /\ errAt <= c.at
              /\ errAt = c.at => err = c.err
    /\ (apc = "exit" /\ \A c \in Conflicts(argv) : errAt < c.at) =>
         err \in {"unrecognized", "logfile_failed", "logsev_failed"}

C8_Witness ==
  /\ apc = "exit"
  /\ err = "logsev_twice"
  /\ errAt = 3
  /\ argv = <<ArgNoLog, ArgManaged, ArgLogSev>>

\* what the dispatcher resolved
Policy(a) ==
  [fatal |-> a.apc = "exit", err |-> a.err, errAt |-> a.errAt,
   exit_code |-> IF a.apc = "exit" THEN a.exit_code ELSE 0,
   log_method |-> a.log_method, log_min_sev |-> a.log_min_sev,
   safe_logging |-> a.safe_logging, is_external_proxy |-> a.is_external_proxy]

\* the outcome of a run: that it failed, or what it resolved
Outcome(a) ==
  IF a.apc = "exit" THEN [fatal |-> TRUE]
  ELSE [fatal |-> FALSE, log_method |-> a.log_method,
        log_min_sev |-> a.log_min_sev, safe_logging |-> a.safe_logging,
        is_external_proxy |-> a.is_external_proxy]

RemoveAll(seq, x) == SelectSeq(seq, LAMBDA y : y # x)
InsertAt(seq, q, x) == SubSeq(seq, 1, q) \o <<x>> \o SubSeq(seq, q + 1, Len(seq))

\* the argument sequences that differ from av only in where --managed stands
ManagedMoved(av) ==
  LET rest == RemoveAll(OptionPrefix(av), ArgManaged)
      tail == SubSeq(av, PrefixEnd(av), Len(av))
  IN  {InsertAt(rest, q, ArgManaged) \o tail : q \in 0..Len(rest)}

ManagedSelected == ArgManaged \in Range(OptionPrefix(argv))

\* the loop consumed the whole prefix and the managed-mode decision was taken
Decided == apc \in {"launch", "ret"} \/ (apc = "exit" /\ err = "managed_log")

PathOf(arg) == SubSeq(arg, Len(OPT_LOG_FILE) + 1, Len(arg))

\* the destination requested by the last --log-file= / --no-log of the prefix
LastDestination(av) ==
  LET D == {k \in DOMAIN OptionPrefix(av) : IsLogFileArg(av[k]) \/ av[k] = OPT_NO_LOG}
      k == CHOOSE m \in D : \A n \in D : n <= m
  IN  IF IsLogFileArg(av[k]) THEN <<"file", PathOf(av[k])>> ELSE <<"null">>

PositionIndependent ==
  \A av \in ManagedMoved(argv) :
    Outcome(RunArgs(ArgStart(av, fileOk))) = Outcome(ArgState)

(* C9 as stated: in managed mode, once the prefix is consumed: (a) no log  *)
(* file but a severity set is fatal with exit 1; (b) neither set forces    *)
(* the null sink; (c) a log file set gives destination File(path), no      *)
(* conflict; the destination is never the default one and the decision     *)
(* does not depend on where --managed stands.                              *)
C9_ManagedFile ==
  (Decided /\ ManagedSelected) =>
    /\ (LogFileAt(argv) = {} /\ SevAt(argv) # {}) =>
          (apc = "exit" /\ exit_code = 1)
    /\ (LogFileAt(argv) = {} /\ SevAt(argv) = {}) =>
          (apc # "exit" /\ log_method = <<"null">> /\ is_external_proxy = 0)
    /\ LogFileAt(argv) # {} =>
          /\ apc # "exit"
          /\ is_external_proxy = 0
          /\ \E k \in LogFileAt(argv) : log_method = <<"file", PathOf(argv[k])>>
    /\ apc # "exit" => log_method # <<"default">>
    /\ PositionIndependent

(* C9 amended: as stated, except (c): with a log file set no conflict is   *)
(* reported, the mode is Managed and the destination is the one requested  *)
(* last in the prefix: File(path), or the null sink when --no-log follows  *)
(* the --log-file= option.                                                 *)
C9_Managed ==
  (Decided /\ ManagedSelected) =>
    /\ (LogFileAt(argv) = {} /\ SevAt(argv) # {}) =>
          (apc = "exit" /\ exit_code = 1)
    /\ (LogFileAt(argv) = {} /\ SevAt(argv) = {}) =>
          (apc # "exit" /\ log_method = <<"null">> /\ is_external_proxy = 0)
    /\ LogFileAt(argv) # {} =>
          /\ apc # "exit"
          /\ is_external_proxy = 0
          /\ log_method = LastDestination(argv)
    /\ apc # "exit" => log_method # <<"default">>
    /\ PositionIndependent

C9_Witness ==
  /\ apc = "launch"
  /\ argv = <<ArgManaged, ArgLogFile, ArgNoLog>>
  /\ log_method = <<"null">>
  /\ is_external_proxy = 0

(* C10: handle_obfsproxy_args consumes exactly the leading run of          *)
(* arguments that begin with "--" and returns the index of the first that  *)
(* does not; the external launcher is handed that argument and all after   *)
(* it, unchanged; what follows the first non-option argument affects       *)
(* neither the policy nor the mode; an empty remainder is not rejected.    *)
C10_Prefix ==
  /\ apc = "parse" => i <= PrefixEnd(argv)
  /\ apc \in {"launch", "ret"} => i = PrefixEnd(argv)
  /\ apc = "exit" =>
       \/ errAt < PrefixEnd(argv)
       \/ (errAt = PrefixEnd(argv) /\ err = "managed_log")
  /\ (apc = "ret" /\ is_external_proxy # 0) =>
       launched = <<[launcher |-> "external",
                     args |-> SubSeq(argv, PrefixEnd(argv), Len(argv))]>>
  /\ apc # "parse" =>
       Policy(ArgState) = Policy(RunArgs(ArgStart(OptionPrefix(argv), fileOk)))
  /\ (argv = <<ArgObfs2, ArgDest>> /\ apc # "parse") =>
       /\ apc \in {"launch", "ret"}
       /\ i = 1
       /\ is_external_proxy = 1
       /\ Remainder = <<ArgObfs2, ArgDest>>
  /\ (argv = <<ArgObfs2, ArgManaged>> /\ apc # "parse") =>
       (apc \in {"launch", "ret"} /\ is_external_proxy = 1)
  /\ (PrefixEnd(argv) = Len(argv) + 1 /\ apc = "exit") => err # "none"
  /\ (argv = <<>> /\ apc # "parse") => apc \in {"launch", "ret"}

C10_Witness ==
  /\ apc = "ret"
  /\ argv = <<ArgNoSafe, ArgObfs2, ArgManaged>>
  /\ launched = <<[launcher |-> "external", args |-> <<ArgObfs2, ArgManaged>>]>>
  /\ safe_logging = 0

\* the five options, the three flags as whole arguments
Recognized(arg) ==
  \/ HasPrefix(arg, OPT_LOG_FILE)
  \/ HasPrefix(arg, OPT_LOG_MIN_SEVERITY)
  \/ arg \in {OPT_NO_LOG, OPT_NO_SAFE_LOGGING, OPT_MANAGED}

Perms(n) == {f \in [1..n -> 1..n] : \A a, b \in 1..n : a # b => f[a] # f[b]}

\* the argument sequences whose option prefix is a permutation of av's
Permuted(av) ==
  LET pre == OptionPrefix(av)
      tail == SubSeq(av, PrefixEnd(av), Len(av))
  IN  {[k \in 1..Len(pre) |-> pre[f[k]]] \o tail : f \in Perms(Len(pre))}

\* the prefix asks for a file and for the null sink
BothDestinations(av) ==
  /\ LogFileAt(av) # {}
  /\ \E k \in DOMAIN OptionPrefix(av) : av[k] = OPT_NO_LOG

(* C12 as stated: two argument sequences whose option prefixes are         *)
(* permutations of each other have the same outcome: both fail, or both    *)
(* resolve the same destination, severity, scrubbing and mode.             *)
C12_OrderFree ==
  apc \in {"launch", "exit"} =>
    \A av \in Permuted(argv) :
      Outcome(RunArgs(ArgStart(av, fileOk))) = Outcome(ArgState)

(* C12 amended: such sequences both fail or both succeed with the same     *)
(* severity, scrubbing and mode; the destination is the same too unless    *)
(* the prefix holds both --log-file= and --no-log, and then it is the one  *)
(* requested later.                                                        *)
C12_OrderFreeButDestination ==
  apc \in {"launch", "exit"} =>
    \A av \in Permuted(argv) :
      LET o == RunArgs(ArgStart(av, fileOk)) IN
      /\ (o.apc = "exit") = (apc = "exit")
      /\ o.apc # "exit" =>
           /\ o.log_min_sev = log_min_sev
           /\ o.safe_logging = safe_logging
           /\ o.is_external_proxy = is_external_proxy
           /\ ~BothDestinations(argv) => o.log_method = log_method
           /\ BothDestinations(argv) =>
                /\ o.log_method = LastDestination(av)
                /\ log_method = LastDestination(argv)

C12_Witness ==
  /\ apc = "launch"
  /\ argv = <<ArgNoLog, ArgLogFile, ArgNoSafe>>
  /\ log_method = <<"file", PathOf(ArgLogFile)>>
  /\ safe_logging = 0

ManagedGiven(av) == \E k \in DOMAIN OptionPrefix(av) : av[k] = OPT_MANAGED

(* C13: exactly one launcher is invoked, once, and only after the options  *)
(* were parsed without a fatal error: the external one with the remainder  *)
(* iff --managed is not in the option prefix, the managed one otherwise;   *)
(* obfs_main returns 0 iff the launcher succeeded, 1 if it failed; every   *)
(* fatal argument error ends the process with exit code 1 and no launcher. *)
C13_OneLauncher ==
  /\ Len(launched) <= 1
  /\ apc \in {"parse", "launch", "exit"} => launched = <<>>
  /\ apc = "ret" =>
       /\ Len(launched) = 1
       /\ err = "none"
       /\ ~ManagedGiven(argv) =>
            launched[1] = [launcher |-> "external",
                           args |-> SubSeq(argv, PrefixEnd(argv), Len(argv))]
       /\ ManagedGiven(argv) =>
            launched[1] = [launcher |-> "managed", args |-> <<>>]
       /\ (exit_code = 0) <=> (launch_ret >= 0)
       /\ launch_ret < 0 => exit_code = 1
  /\ apc = "exit" => exit_code = 1 /\ err # "none"

C13_Witness ==
  /\ apc = "ret"
  /\ ManagedGiven(argv)
  /\ launched = <<[launcher |-> "managed", args |-> <<>>]>>
  /\ launch_ret < 0
  /\ exit_code = 1

(* ================= protocol registry and usage text =================== *)

NameObfs2 == <<"o","b","f","s","2">>
NameObfs == <<"o","b","f","s">>
NameObfs2x == <<"o","b","f","s","2","x">>
NameUpper == <<"O","B","F","S","2">>
NameDummy == <<"d","u","m","m","y">>

\* names a descriptor of supported_protocols[] may carry
RegisteredNames == {NameObfs2, NameObfs, NameObfs2x, NameUpper, NameDummy}

\* names asked for
QueryNames == RegisteredNames \cup {<<>>}

\* supported_protocols[]: descriptors with distinct names
Registries ==
  UNION {{r \in [1..n -> [name : RegisteredNames]] :
            \A a, b \in 1..n : a # b => r[a].name # r[b].name}
         : n \in 0..MaxProtos}

n_supported_protocols == Len(registry)

\* strcmp(a, b) == 0: equal up to and including the terminator
StrEq(a, b) == StrnEq(a, b, Len(a) + 1)

\* variant: only the characters of name are compared
is_supported_protocol_prefix(name) ==
  IF \E k \in 1..n_supported_protocols :
       StrnEq(name, registry[k].name, Len(name))
    THEN 1 ELSE 0

\* is_supported_protocol(): 1 at the first descriptor whose name compares
\* equal, 0 when the loop runs out
is_supported_protocol(name) ==
  IF \E k \in 1..n_supported_protocols : StrEq(name, registry[k].name)
    THEN 1 ELSE 0

\* a caller asks whether name is supported
call_is_supported_protocol(name) ==
  /\ apc = "launch"
  /\ qname' = name
  /\ qret' = is_supported_protocol(name)
  /\ UNCHANGED <<loopVars, argVars, launch_ret, registry, usage_out,
                 lifeVars, timeVars>>

\* "[%s] " for one descriptor
Bracketed(name) == <<"[">> \o name \o <<"]", " ">>

\* the option lines of the literal that usage() prints
UsageOptionLines ==
  <<[opt |-> OPT_LOG_FILE, text |-> "<file> ~ set logfile"],
    [opt |-> OPT_LOG_MIN_SEVERITY,
     text |-> "warn|notice|info|debug ~ set minimum logging severity (default: notice)"],
    [opt |-> OPT_NO_LOG, text |-> " ~ disable logging"],
    [opt |-> OPT_NO_SAFE_LOGGING,
     text |-> " ~ disable safe (scrubbed address) logging"]>>

\* what usage() writes to stderr
UsageText ==
  [protocols |-> [k \in 1..n_supported_protocols |->
                    Bracketed(registry[k].name)],
   options |-> UsageOptionLines]

\* usage(): print, then exit(1)
usage ==
  /\ apc = "launch"
  /\ usage_out' = <<UsageText>>
  /\ exit_code' = 1
  /\ apc' = "exit"
  /\ UNCHANGED <<loopVars, argv, fileOk, i, logfile_set, logsev_set,
                 is_external_proxy, safe_logging, log_method, log_min_sev,
                 err, errAt, launched, subsystems, launch_ret, registry,
                 qname, qret, lifeVars, timeVars>>

\* the options are parsed, a launcher is at work on the remainder
ProtoInit ==
  /\ pc = "main"
  /\ got_sigint = 0
  /\ listenersOpen = FALSE
  /\ closeCalls = 0
  /\ shutting_down = FALSE
  /\ nConns = 0
  /\ directives = <<>>
  /\ loopexit = FALSE
  /\ exitCalls = 0
  /\ netFinished = FALSE
  /\ trace = <<>>
  /\ argv = <<>>
  /\ fileOk = TRUE
  /\ apc = "launch"
  /\ i = 1
  /\ logfile_set = 0
  /\ logsev_set = 0
  /\ is_external_proxy = 1
  /\ safe_logging = 1
  /\ log_method = <<"default">>
  /\ log_min_sev = <<"n","o","t","i","c","e">>
  /\ err = "none"
  /\ errAt = 0
  /\ exit_code = -1
  /\ launched = <<>>
  /\ subsystems = {}
  /\ launch_ret = 0
  /\ registry \in Registries
  /\ qname = <<>>
  /\ qret = -1
  /\ usage_out = <<>>
  /\ initLog = <<>>
  /\ teardown = <<>>
  /\ TimerIdle

ProtoNext ==
  \/ \E name \in QueryNames : call_is_supported_protocol(name)
  \/ usage

ProtoSpec == ProtoInit /\ [][ProtoNext]_vars

(* ======================= registry properties ========================== *)

Names(reg) == {reg[k].name : k \in DOMAIN reg}

ProperPrefix(a, b) == Len(a) < Len(b) /\ SubSeq(b, 1, Len(a)) = a

(* C14: is_supported_protocol(name) returns 1 iff a descriptor of the      *)
(* registry has exactly that name, 0 otherwise (so 0 for the empty string  *)
(* and for a proper prefix or an extension of a registered name that is    *)
(* not itself registered); the call leaves the registry as it was.         *)
C14_ExactMatch ==
  /\ [](qret # -1 =>
          /\ qret \in {0, 1}
          /\ (qret = 1) <=> (qname \in Names(registry))
          /\ qname = <<>> => qret = 0
          /\ (/\ qname \notin Names(registry)
              /\ \E n \in Names(registry) :
                   ProperPrefix(qname, n) \/ ProperPrefix(n, qname))
             => qret = 0)
  /\ [][registry' = registry]_vars

C14_Witness ==
  /\ registry = <<[name |-> NameObfs2], [name |-> NameDummy]>>
  /\ qname = NameObfs
  /\ qret = 0

UsageCalled == usage_out # <<>>

FiveOptions ==
  {OPT_LOG_FILE, OPT_LOG_MIN_SEVERITY, OPT_NO_LOG, OPT_NO_SAFE_LOGGING,
   OPT_MANAGED}

(* C15: the text usage() prints before it exits with code 1 names every    *)
(* registered protocol and all five options --log-file=,                   *)
(* --log-min-severity=, --no-log, --no-safe-logging and --managed.         *)
C15_UsageComplete ==
  UsageCalled =>
    /\ exit_code = 1
    /\ \A k \in DOMAIN registry :
         \E j \in DOMAIN usage_out[1].protocols :
           usage_out[1].protocols[j] = Bracketed(registry[k].name)
    /\ \A o \in FiveOptions :
         \E j \in DOMAIN usage_out[1].options : usage_out[1].options[j].opt = o

(* ======================= interrupt counter ============================= *)

(* C19: got_sigint is always 0 or 1 however many signals are dispatched:   *)
(* it is incremented only when it is 0 and SIGTERM never changes it; so    *)
(* start_shutdown(0) is issued at most once, only by an interrupt          *)
(* dispatched while got_sigint is 0, and every later interrupt issues      *)
(* start_shutdown(1).                                                      *)
C19_CounterBounded ==
  /\ got_sigint \in {0, 1}
  /\ Cardinality({k \in DOMAIN directives : directives[k] = 0}) <= 1
  /\ \A k \in DOMAIN trace :
       LET e == trace[k] IN
       /\ e.gafter # e.gbefore =>
            e.sig = "SIGINT" /\ e.gbefore = 0 /\ e.gafter = 1
       /\ e.sig = "SIGTERM" => e.gafter = e.gbefore
       /\ 0 \in Range(e.issued) => e.sig = "SIGINT" /\ e.gbefore = 0
       /\ (e.sig = "SIGINT" /\ e.gbefore = 0) => e.issued = <<0>>
       /\ (e.sig = "SIGINT" /\ \E j \in 1..(k - 1) : trace[j].sig = "SIGINT")
            => e.gbefore = 1 /\ e.issued = <<1>>

C19_Witness ==
  /\ Len(trace) = 4
  /\ trace[1].sig = "SIGINT" /\ trace[2].sig = "SIGTERM"
  /\ trace[3].sig = "SIGINT" /\ trace[4].sig = "SIGINT"
  /\ got_sigint = 1
  /\ directives = <<0, 1, 1, 1>>

(* ============================ teardown ================================= *)

TeardownOrder ==
  <<"close_all_listeners", "evdns_base_free", "event_free(sig_int)",
    "event_free(sig_term)", "event_free(heartbeat)", "event_base_free",
    "cleanup_crypto", "status_connections_cleanup",
    "close_obfsproxy_logfile">>

\* call a is made, and made before call b
Before(calls, a, b) ==
  \E j, k \in DOMAIN calls : j < k /\ calls[j] = a /\ calls[k] = b

(* C17: obfsproxy_cleanup closes the listeners, frees the DNS resolver,    *)
(* both signal events and the heartbeat timer, then the event base, then   *)
(* cleans up crypto and the connection status and closes the log file, in  *)
(* that order and every step of it; so the event base is freed after all   *)
(* that is registered on it, and the log file is released last.            *)
C17_TeardownOrder ==
  /\ pc # "done" => teardown = <<>>
  /\ pc = "done" =>
       /\ teardown = TeardownOrder
       /\ \A c \in {"evdns_base_free", "event_free(sig_int)",
                    "event_free(sig_term)", "event_free(heartbeat)"} :
            Before(teardown, c, "event_base_free")
       /\ teardown[Len(teardown)] = "close_obfsproxy_logfile"
       /\ \A j, k \in DOMAIN teardown : j # k => teardown[j] # teardown[k]
       /\ ~listenersOpen
       /\ subsystems = {}

C17_Witness ==
  /\ pc = "done"
  /\ Len(teardown) = 9
  /\ teardown[6] = "event_base_free"
  /\ closeCalls = 1
  /\ directives = <<1>>

(* =================== --no-log in managed mode ========================== *)

NoLogGiven(av) == \E k \in DOMAIN OptionPrefix(av) : av[k] = OPT_NO_LOG

\* --managed and --no-log, and no --log-file=
ManagedNoLog(av) == ManagedGiven(av) /\ NoLogGiven(av) /\ LogFileAt(av) = {}

\* the option prefix holds nothing but flags, --no-log at most once
FlagsOnly(av) ==
  /\ \A k \in DOMAIN OptionPrefix(av) :
       av[k] \in {OPT_NO_LOG, OPT_NO_SAFE_LOGGING, OPT_MANAGED}
  /\ Cardinality({k \in DOMAIN OptionPrefix(av) : av[k] = OPT_NO_LOG}) <= 1

ArgsDone == apc \in {"launch", "ret", "exit"}

(* C20 as stated: an option prefix with --managed and --no-log and without *)
(* --log-file= is rejected with the managed-mode error and exit code 1;    *)
(* --managed alone is accepted and gives the null sink.                    *)
C20_NoLogManaged ==
  ArgsDone =>
    /\ ManagedNoLog(argv) =>
         apc = "exit" /\ err = "managed_log" /\ exit_code = 1
    /\ OptionPrefix(argv) = <<OPT_MANAGED>> =>
         /\ apc # "exit"
         /\ is_external_proxy = 0
         /\ log_method = <<"null">>

(* C20 amended: such a prefix is always rejected with exit code 1; the     *)
(* error is the managed-mode one unless an argument of the prefix is fatal *)
(* by itself (a second severity setting, an unrecognized option, a bad     *)
(* severity), which is then reported at that argument; --managed alone is  *)
(* accepted and gives the null sink.                                       *)
C20_NoLogManagedRejected ==
  ArgsDone =>
    /\ ManagedNoLog(argv) =>
         /\ apc = "exit"
         /\ exit_code = 1
         /\ launched = <<>>
         /\ FlagsOnly(argv) =>
              err = "managed_log" /\ log_method = <<"null">>
         /\ ~FlagsOnly(argv) =>
              /\ err \in {"logsev_twice", "logsev_failed", "unrecognized"}
              /\ errAt \in DOMAIN OptionPrefix(argv)
    /\ OptionPrefix(argv) = <<OPT_MANAGED>> =>
         /\ apc # "exit"
         /\ is_external_proxy = 0
         /\ log_method = <<"null">>

C20_Witness ==
  /\ apc = "exit"
  /\ OptionPrefix(argv) = <<OPT_NO_LOG, OPT_MANAGED>>
  /\ err = "managed_log"
  /\ exit_code = 1
  /\ logsev_set = 1
  /\ log_method = <<"null">>

(* ====================== start-up and heartbeat ========================= *)

(* What the environment answers to the calls of obfsproxy_init: TRUE is    *)
(* success (for the three constructors: a non-NULL result).  fault is what *)
(* event_add() does with a NULL event, which the code does not exclude:    *)
(* the access faults, or event_add() reports an error.                     *)
InitOutcomes ==
  [crypto : BOOLEAN, base : BOOLEAN, dns : BOOLEAN,
   sigint_new : BOOLEAN, sigterm_new : BOOLEAN,
   add_int : BOOLEAN, add_term : BOOLEAN,
   hb_new : BOOLEAN, add_hb : BOOLEAN,
   fault : {"segv", "error"}]

InitStart == [log |-> <<>>, subs |-> {}, st |-> "going", err |-> "none"]

\* a call is made if the function is still running
Called(r, name) ==
  IF r.st = "going" THEN [r EXCEPT !.log = Append(@, name)] ELSE r

\* logging collaborator: log_error() reports and ends the process
init_log_error(r, kind) == [r EXCEPT !.st = "exit", !.err = kind]

\* variant: the failure is not looked at
Check_nonfatal(r, failed, kind, sub) ==
  IF r.st # "going" THEN r
  ELSE [r EXCEPT !.subs = @ \cup {sub}]

\* if (<failed>) log_error(<kind>);
Check(r, failed, kind, sub) ==
  IF r.st # "going" THEN r
  ELSE IF failed THEN init_log_error(r, kind)
  ELSE [r EXCEPT !.subs = @ \cup {sub}]

\* event_add(ev, tv): nz is "returned non-zero"
event_add(r, name, ev_ok, ret_ok, fault) ==
  IF r.st # "going" THEN [r |-> r, nz |-> FALSE]
  ELSE LET r1 == Called(r, name) IN
       IF ~ev_ok
         THEN IF fault = "segv"
                THEN [r |-> [r1 EXCEPT !.st = "killed"], nz |-> FALSE]
                ELSE [r |-> r1, nz |-> TRUE]
         ELSE [r |-> r1, nz |-> ~ret_ok]

\* obfsproxy_init, from its first statement to its return or to the exit
InitRun(o) ==
  LET r1 == Check(Called(InitStart, "initialize_crypto"),
                  ~o.crypto, "init_crypto", "crypto")
      r2 == Check(Called(r1, "event_base_new"),
                  ~o.base, "init_networking", "reactor")
      r3 == Check(Called(r2, "init_evdns_base"),
                  ~o.dns, "init_dns", "dns")
      r4 == Called(Called(Called(r3, "signal(SIGPIPE)"),
                          "evsignal_new(SIGINT)"), "evsignal_new(SIGTERM)")
      a1 == event_add(r4, "event_add(sig_int)",
                      o.sigint_new, o.add_int, o.fault)
      a2 == IF a1.nz THEN a1
            ELSE event_add(a1.r, "event_add(sig_term)",
                           o.sigterm_new, o.add_term, o.fault)
      r5 == Check(a2.r, a2.nz, "init_signals", "signals")
      r6 == Called(Called(r5, "status_init"), "event_new(heartbeat)")
      a3 == event_add(r6, "event_add(heartbeat)",
                      o.hb_new, o.add_hb, o.fault)
  IN  Check(a3.r, a3.nz, "init_heartbeat", "heartbeat")

obfsproxy_init(o) ==
  /\ pc = "init"
  /\ LET r == InitRun(o) IN
       /\ initLog' = r.log
       /\ subsystems' = r.subs
       /\ pc' = CASE r.st = "going" -> "ready"
                  [] r.st = "exit" -> "exit"
                  [] OTHER -> "killed"
       /\ err' = r.err
       /\ exit_code' = IF r.st = "exit" THEN 1 ELSE exit_code
       /\ hb_next' = IF "heartbeat" \in r.subs THEN now + one_hour
                     ELSE hb_next
  /\ UNCHANGED <<got_sigint, listenersOpen, closeCalls, shutting_down, nConns,
                 directives, loopexit, exitCalls, netFinished, trace,
                 argv, fileOk, apc, i, logfile_set, logsev_set,
                 is_external_proxy, safe_logging, log_method, log_min_sev,
                 errAt, launched, launch_ret, protoVars, teardown, now,
                 hbLog>>

\* the launcher opens its listeners and enters event_base_dispatch()
EnterLoop ==
  /\ pc = "ready"
  /\ pc' = "run"
  /\ listenersOpen' = TRUE
  /\ UNCHANGED <<got_sigint, closeCalls, shutting_down, nConns, directives,
                 loopexit, exitCalls, netFinished, trace, argVars, otherVars>>

HeartbeatDue == pc = "run" /\ hb_next # NotArmed /\ now >= hb_next

\* the clock advances; a timer that is due runs first
Tick(d) ==
  /\ pc = "run"
  /\ ~HeartbeatDue
  /\ now + d <= MaxHours * one_hour
  /\ now' = now + d
  /\ UNCHANGED <<loopVars, argVars, launch_ret, protoVars, lifeVars,
                 hb_next, hbLog>>

\* variant: the heartbeat asks the loop to exit
HeartbeatBody_exit(s) == finish_shutdown(s)

\* heartbeat_cb(): nothing but status_log_heartbeat()
HeartbeatBody(s) == s

(* EV_PERSIST: the timer is armed again when it fires, one interval after  *)
(* the time it was due or one interval after the clock, as the library     *)
(* version has it.                                                         *)
Rearm == {hb_next + one_hour, now + one_hour}

heartbeat_cb ==
  /\ HeartbeatDue
  /\ Commit(HeartbeatBody(CbState))
  /\ hbLog' = Append(hbLog, [at |-> now, due |-> hb_next,
                             state |-> ShutdownState])
  /\ hb_next' \in Rearm
  /\ UNCHANGED <<pc, netFinished, trace, argVars, launch_ret, protoVars,
                 lifeVars, now>>

LifeInit ==
  /\ pc = "init"
  /\ got_sigint = 0
  /\ listenersOpen = FALSE
  /\ closeCalls = 0
  /\ shutting_down = FALSE
  /\ nConns = 0
  /\ directives = <<>>
  /\ loopexit = FALSE
  /\ exitCalls = 0
  /\ netFinished = FALSE
  /\ trace = <<>>
  /\ argv = <<>>
  /\ fileOk = TRUE
  /\ apc = "launch"
  /\ i = 1
  /\ logfile_set = 0
  /\ logsev_set = 0
  /\ is_external_proxy = 1
  /\ safe_logging = 1
  /\ log_method = <<"default">>
  /\ log_min_sev = <<"n","o","t","i","c","e">>
  /\ err = "none"
  /\ errAt = 0
  /\ exit_code = -1
  /\ launched = <<>>
  /\ subsystems = {}
  /\ launch_ret = 0
  /\ ProtoIdle
  /\ initLog = <<>>
  /\ teardown = <<>>
  /\ TimerIdle

LifeNext ==
  \/ \E o \in InitOutcomes : obfsproxy_init(o)
  \/ EnterLoop
  \/ \E d \in {one_hour \div 2, one_hour} : Tick(d)
  \/ heartbeat_cb
  \/ Next

LifeSpec == LifeInit /\ [][LifeNext]_vars

(* ======================== start-up properties ========================== *)

IsPrefix(a, b) == Len(a) <= Len(b) /\ SubSeq(b, 1, Len(a)) = a

\* the five steps, and what each one needs to have succeeded before it
StepOrder == <<"crypto", "reactor", "dns", "signals", "heartbeat">>

StepOfCall(c) ==
  CASE c = "initialize_crypto" -> 1
    [] c = "event_base_new" -> 2
    [] c = "init_evdns_base" -> 3
    [] c \in {"signal(SIGPIPE)", "evsignal_new(SIGINT)",
              "evsignal_new(SIGTERM)", "event_add(sig_int)",
              "event_add(sig_term)"} -> 4
    [] OTHER -> 5

Ended == pc \in {"exit", "killed"}

\* the step at which the start-up ended, 0 if it did not
FailedStep ==
  CASE err = "init_crypto" -> 1
    [] err = "init_networking" -> 2
    [] err = "init_dns" -> 3
    [] err = "init_signals" -> 4
    [] err = "init_heartbeat" -> 5
    [] pc = "killed" -> StepOfCall(initLog[Len(initLog)])
    [] OTHER -> 0

(* C16: obfsproxy_init runs crypto init, event base creation, DNS init     *)
(* (on that base), SIGPIPE and the two signal handlers, status init and    *)
(* the heartbeat timer, in this order; a step is attempted only if every   *)
(* earlier one succeeded; when a step fails the process ends, no later     *)
(* step runs and the loop is never entered.                                *)
C16_InitOrder ==
  /\ [](/\ IsPrefix(initLog, InitCalls)
        /\ \A k \in DOMAIN initLog :
             \A j \in 1..(StepOfCall(initLog[k]) - 1) :
               pc # "done" => StepOrder[j] \in subsystems
        /\ Ended =>
             /\ FailedStep \in 1..5
             /\ \A k \in DOMAIN initLog : StepOfCall(initLog[k]) <= FailedStep
             /\ StepOrder[FailedStep] \notin subsystems
             /\ pc = "exit" => exit_code = 1
             /\ trace = <<>> /\ hbLog = <<>> /\ teardown = <<>>
             /\ ~listenersOpen
        /\ pc \in {"ready", "run", "returned"} =>
             initLog = InitCalls /\ subsystems = AllSubsystems /\ err = "none")
  /\ [][Ended => pc' = pc]_vars
  /\ [][pc' = "run" /\ pc # "run" =>
          initLog = InitCalls /\ subsystems = AllSubsystems]_vars

C16_Witness ==
  /\ pc = "exit"
  /\ err = "init_dns"
  /\ initLog = <<"initialize_crypto", "event_base_new", "init_evdns_base">>
  /\ subsystems = {"crypto", "reactor"}
  /\ exit_code = 1

(* ======================= heartbeat properties ========================== *)

LoopState == <<pc, got_sigint, listenersOpen, closeCalls, shutting_down,
               nConns, directives, loopexit, exitCalls>>

(* C18: the heartbeat is one persistent timer of 3600 seconds: it fires at *)
(* most once per interval, is armed again at each firing, fires in         *)
(* Running, in Draining and, until the loop has returned, in Terminating;  *)
(* its callback only emits the status summary: the shutdown state, the     *)
(* listeners and the loop-exit request are as they were.                   *)
C18_Heartbeat ==
  /\ [](/\ one_hour = 3600
        /\ \A k \in DOMAIN hbLog :
             /\ hbLog[k].at >= k * one_hour
             /\ hbLog[k].at >= hbLog[k].due
             /\ k > 1 => hbLog[k].due >= hbLog[k - 1].due + one_hour
        /\ pc = "run" =>
             /\ hb_next # NotArmed
             /\ hb_next <= now + one_hour
             /\ hbLog # <<>> => hb_next >= hbLog[Len(hbLog)].due + one_hour)
  /\ [][hbLog' # hbLog =>
          /\ LoopState' = LoopState
          /\ ShutdownState' = ShutdownState
          /\ hb_next' > now]_vars

C18_Witness ==
  /\ pc = "run"
  /\ Len(hbLog) = 2
  /\ hbLog[1].state = "Draining"
  /\ hbLog[2].state = "Terminating"
  /\ loopexit
  /\ hb_next > now

====
